---- MODULE Spec2Model ----
(***************************************************************************)
(* Filesystem syscall shims of Starry-On-ArceOS (src/syscall_imp/fs):      *)
(* sys_getdents64 with its DirEnt / DirBuffer encoder, sys_fstat,          *)
(* sys_statx, sys_linkat and sys_unlinkat.                                 *)
(*                                                                         *)
(* User memory is modelled byte by byte. The caller's getdents64 buffer    *)
(* occupies addresses 0 .. len-1 of `mem`; the bytes from len upwards are  *)
(* memory that lies behind the buffer and does not belong to it.           *)
(***************************************************************************)
EXTENDS Integers, Sequences, FiniteSets, TLC

\* ------------------------------------------------------------- bounds
\* Largest getdents64 buffer length the caller tries.
MaxLen == 48
\* Largest number of entries in the directory.
MaxEntries == 3
\* Largest number of getdents64 calls on the descriptor.
MaxCalls == 3

\* ---------------------------------------------------- program constants
\* DirEnt::FIXED_SIZE = size_of u64 + i64 + u16 + u8.
FIXED_SIZE == 19
\* size_of::<DirEnt>() under repr(C): 19 bytes of fields, aligned to 8.
SIZEOF_DIRENT == 24
\* align_of::<DirEnt>() under repr(C): that of its u64 / i64 fields.
ALIGNOF_DIRENT == 8
\* Field offsets of the repr(C) struct DirEnt.
OFF_D_INO == 0
OFF_D_OFF == 8
OFF_D_RECLEN == 16
OFF_D_TYPE == 18
OFF_D_NAME == 19
\* enum FileType discriminants used by the shim.
FT_UNKNOWN == 0
FT_DIR == 4
FT_REG == 8
\* LinuxError::ENOENT as isize.
ENOENT == 2
\* LinuxError codes the stat shims pass on or return.
EBADF == 9
EFAULT == 14
EINVAL == 22
ENOSYS == 38
\* const AT_REMOVEDIR in sys_unlinkat (0x200).
AT_REMOVEDIR == 512
\* const AT_EMPTY_PATH in sys_statx.
AT_EMPTY_PATH == 4096
\* The value sys_statx stores in stx_attributes_mask (0x7FF).
STX_ATTRIBUTES_MASK == 2047

\* Shortest buffer length the caller tries (one below FIXED_SIZE, so that the
\* "buffer too small" branch is taken).
MinLen == FIXED_SIZE - 1
\* Memory modelled behind the buffer: a DirEnt stored at the last position
\* write_entry accepts ends at most SIZEOF_DIRENT - FIXED_SIZE bytes behind it.
MemTop == MaxLen + 1 + (SIZEOF_DIRENT - FIXED_SIZE)

\* File names the backend may list (bytes, without the terminator):
\* axfs::api::FileType as seen by From<axfs::api::FileType> for FileType.
BackendTypes == { "dir", "file", "other" }
\* What a build may do with the 5 padding bytes of a stored DirEnt: leave
\* them alone (field-wise stores), or store the whole 24-byte object with
\* zero or with stale padding.
PadModes == { "skip", "zero", "junk" }

VARIABLES
    padStore,   \* how this build stores DirEnt padding (see PadModes)
    alignTrap,  \* TRUE: this build traps on a misaligned DirEnt access
    dir,        \* the directory listing of the backend (does not change)
    len,        \* length of the caller's getdents64 buffer
    mem,        \* user memory: the byte at address a is mem[a + 1]
    dirBacked,  \* the buffer range is backed (alloc_for_lazy succeeded)
    calls,      \* number of sys_getdents64 calls made so far
    yielded,    \* names emitted since the start of the logical enumeration
    done,       \* the last call ended the logical enumeration
    last,       \* what the last syscall did
    kstatBuf,   \* the Kstat record in the caller's fstat buffer
    statxBuf,   \* the StatX record in the caller's statx buffer
    links,      \* HardlinkManager: link path -> target path, or NoLink
    fsDirs,     \* the (empty) directories of the backend filesystem
    env,        \* AX_TESTCASES_LIST as the build saw it: [set, val]
    mainPc,     \* where main is (see MainPcAfter)
    testcase,   \* main's position in the testcases iterator (0: before it)
    console,    \* the lines println! has written, oldest first
    aspaces,    \* number of user address spaces created so far
    uspace,     \* main's local uspace: id of the address space, 0 when none
    tasks       \* the user tasks spawned so far, in spawn order

vars == << padStore, alignTrap, dir, len, mem, dirBacked, calls, yielded, done, last,
           kstatBuf, statxBuf, links, fsDirs,
           env, mainPc, testcase, console, aspaces, uspace, tasks >>

linkVars == << links, fsDirs >>

dirVars == << padStore, alignTrap, dir, len, mem, dirBacked, calls, yielded, done >>
statVars == << kstatBuf, statxBuf >>
mainVars == << env, mainPc, testcase, console, aspaces, uspace, tasks >>

\* The driver as the syscall specifications see it: not looked at.
MainIdle ==
    /\ env = [ set |-> FALSE, val |-> << >> ]
    /\ mainPc = "start"
    /\ testcase = 0
    /\ console = << >>
    /\ aspaces = 0
    /\ uspace = 0
    /\ tasks = << >>

\* ------------------------------------------------------------ helpers
Max(a, b) == IF a >= b THEN a ELSE b

Pow256 == << 1, 256, 65536, 16777216 >>

\* Byte i (little endian) of a non-negative value below 2^31 held in an
\* 8-byte or 2-byte integer field.
ByteOf(v, i) == IF i < 4 THEN (v \div Pow256[i + 1]) % 256 ELSE 0

\* The byte at address a of memory m (a sequence: address a is element a+1).
Peek(m, a) == m[a + 1]

\* The u16 stored at address a.
ReadU16(m, a) == Peek(m, a) + 256 * Peek(m, a + 1)

\* Whether the i64 stored at address a equals v (compared byte by byte).
I64Equals(m, a, v) == \A i \in 0 .. 7 : Peek(m, a + i) = ByteOf(v, i)

\* ------------------------------------------------- DirEnt / FileType
\* impl From<axfs::api::FileType> for FileType, as the u8 stored in d_type.
FileTypeFrom(ft) ==
    IF ft = "dir" THEN FT_DIR ELSE IF ft = "file" THEN FT_REG ELSE FT_UNKNOWN

\* Faulty variant of DirEntNew: d_off holds the offset at which this record starts
\* instead of the one at which the next record starts.
DirEntNewOwnOffset(ino, off, reclen, file_type) ==
    [ d_ino |-> ino, d_off |-> off - reclen, d_reclen |-> reclen % 65536,
      d_type |-> file_type ]

\* DirEnt::new: `reclen as u16` truncates.
DirEntNew(ino, off, reclen, file_type) ==
    [ d_ino |-> ino, d_off |-> off, d_reclen |-> reclen % 65536, d_type |-> file_type ]

\* Byte k (0 .. FIXED_SIZE-1) of the fields of a DirEnt in repr(C) layout.
DirEntByte(de, k) ==
    IF k < OFF_D_OFF THEN ByteOf(de.d_ino, k - OFF_D_INO)
    ELSE IF k < OFF_D_RECLEN THEN ByteOf(de.d_off, k - OFF_D_OFF)
    ELSE IF k < OFF_D_TYPE THEN ByteOf(de.d_reclen, k - OFF_D_RECLEN)
    ELSE de.d_type

\* The padding byte a whole-object store puts behind the fields.
PadByte(pad) == IF pad = "zero" THEN 0 ELSE 255

\* entry_ptr.write(dirent): a typed store of size_of::<DirEnt>() bytes at
\* address at. The fields are always stored; the 5 padding bytes are stored
\* or not, as the build does it.
StoreDirEnt(m, at, de, pad) ==
    [ i \in 1 .. Len(m) |->
        LET a == i - 1
        IN  IF a >= at /\ a < at + FIXED_SIZE THEN DirEntByte(de, a - at)
            ELSE IF a >= at + FIXED_SIZE /\ a < at + SIZEOF_DIRENT /\ pad # "skip"
                 THEN PadByte(pad)
            ELSE m[i] ]

\* First address behind the bytes StoreDirEnt stores.
StoreDirEntEnd(at, pad) ==
    IF pad = "skip" THEN at + FIXED_SIZE ELSE at + SIZEOF_DIRENT

\* DirEnt::write_name: copy_nonoverlapping of the name to d_name, which lies
\* at offset OFF_D_NAME of the record at address at.
WriteName(m, at, name) ==
    [ i \in 1 .. Len(m) |->
        LET a == i - 1
        IN  IF a >= at + OFF_D_NAME /\ a < at + OFF_D_NAME + Len(name)
            THEN name[a - (at + OFF_D_NAME) + 1]
            ELSE m[i] ]

\* Whether a DirEnt access at address a is misaligned (the buffer itself
\* starts at an aligned address).
Misaligned(a) == a % ALIGNOF_DIRENT # 0

\* --------------------------------------------------------- DirBuffer
\* DirBuffer::new: the cursor starts at 0.
DirBufferNew(buflen) == [ buflen |-> buflen, offset |-> 0 ]

\* DirBuffer::remaining_space: saturating subtraction.
RemainingSpace(b) == IF b.buflen >= b.offset THEN b.buflen - b.offset ELSE 0

\* DirBuffer::can_fit_entry.
CanFitEntry(b, entry_size) == RemainingSpace(b) >= entry_size

\* DirBuffer::write_entry. The result tells whether the entry was accepted
\* (ok), whether the store trapped (trap), the buffer and memory afterwards
\* and the first address behind the bytes it stored (hi; 0 if none).
WriteEntry(b, m, dirent, name, pad, trapping) ==
    IF ~CanFitEntry(b, dirent.d_reclen)
    THEN [ ok |-> FALSE, trap |-> FALSE, b |-> b, m |-> m, hi |-> 0 ]
    ELSE IF trapping /\ Misaligned(b.offset)
    THEN [ ok |-> FALSE, trap |-> TRUE, b |-> b, m |-> m, hi |-> 0 ]
    ELSE [ ok |-> TRUE, trap |-> FALSE,
           b |-> [ b EXCEPT !.offset = b.offset + dirent.d_reclen ],
           m |-> WriteName(StoreDirEnt(m, b.offset, dirent, pad), b.offset, name),
           hi |-> Max(StoreDirEntEnd(b.offset, pad),
                      b.offset + OFF_D_NAME + Len(name)) ]

\* ---------------------------------------------------- sys_getdents64
\* The resume scan: walk the records already in the buffer, check each
\* d_off against the running offset (assert_eq!) and count them.
RECURSIVE ScanPrior(_, _, _, _, _)
ScanPrior(m, buflen, buf_offset, count, trapping) ==
    IF buf_offset + FIXED_SIZE <= buflen
    THEN IF trapping /\ Misaligned(buf_offset)
         THEN [ panic |-> TRUE, initial_offset |-> buf_offset, count |-> count ]
         ELSE LET d_reclen == ReadU16(m, buf_offset + OFF_D_RECLEN)
              IN  IF d_reclen = 0
                  THEN [ panic |-> FALSE, initial_offset |-> buf_offset, count |-> count ]
                  ELSE IF ~I64Equals(m, buf_offset + OFF_D_OFF, buf_offset + d_reclen)
                  THEN [ panic |-> TRUE, initial_offset |-> buf_offset + d_reclen,
                         count |-> count ]
                  ELSE ScanPrior(m, buflen, buf_offset + d_reclen, count + 1, trapping)
    ELSE [ panic |-> FALSE, initial_offset |-> buf_offset, count |-> count ]

\* The body of `for entry in entries.flatten().skip(count)`, from entry i on.
\* s holds the locals of the closure: buffer, total_size, current_offset,
\* and, for the properties, the records stored (recs) and the first address
\* behind all bytes stored (hi).
RECURSIVE EmitEntries(_, _, _, _, _)
EmitEntries(s, entries, i, pad, trapping) ==
    IF i > Len(entries) THEN s
    ELSE LET name_bytes == Append(entries[i].name, 0)
             entry_size == FIXED_SIZE + Len(name_bytes)
             current_offset == s.current_offset + entry_size
             dirent == DirEntNew(1, current_offset, entry_size,
                                 FileTypeFrom(entries[i].ftype))
             w == WriteEntry(s.buffer, s.m, dirent, name_bytes, pad, trapping)
         IN  IF w.trap
             THEN [ s EXCEPT !.panic = TRUE, !.current_offset = current_offset ]
             ELSE IF ~w.ok
             THEN [ s EXCEPT !.current_offset = current_offset ]
             ELSE EmitEntries(
                    [ buffer |-> w.b, m |-> w.m, hi |-> Max(s.hi, w.hi),
                      total_size |-> s.total_size + entry_size,
                      current_offset |-> current_offset, panic |-> FALSE,
                      recs |-> Append(s.recs, [ at |-> s.buffer.offset,
                                                name |-> entries[i].name ]) ],
                    entries, i + 1, pad, trapping)

\* The terminal zero-reclen record, stored when something was emitted and a
\* fixed header still fits.
EmitTerminal(s, pad, trapping) ==
    IF s.panic THEN s
    ELSE IF s.total_size > 0 /\ CanFitEntry(s.buffer, FIXED_SIZE)
    THEN LET terminal == DirEntNew(1, s.current_offset, 0, FT_REG)
             w == WriteEntry(s.buffer, s.m, terminal, << >>, pad, trapping)
         IN  IF w.trap THEN [ s EXCEPT !.panic = TRUE ]
             ELSE [ s EXCEPT !.buffer = w.b, !.m = w.m, !.hi = Max(s.hi, w.hi) ]
    ELSE s

\* alloc_for_lazy on the buffer range: a no-op on a range that is backed,
\* and otherwise it succeeds if the address space can supply the pages.
AllocForLazy(backed, can_alloc) == backed \/ can_alloc

\* What a call that returns before it looks at the buffer reports.
EarlyReturn(ret, prefault, m, backed) ==
    [ op |-> "getdents64", outcome |-> "err", ret |-> ret, prefault |-> prefault,
      touched |-> FALSE, m |-> m, backed |-> backed, hi |-> 0, cursor |-> 0,
      recs |-> << >> ]

\* sys_getdents64(fd, buf, len) on memory m. fd_ok: Directory::from_fd
\* succeeds; can_alloc: see AllocForLazy; readdir_ok: axfs::api::read_dir
\* succeeds and lists `entries`.
SysGetdents64(fd_ok, can_alloc, readdir_ok, entries, m, buflen, backed, pad, trapping) ==
    IF buflen < FIXED_SIZE THEN EarlyReturn(-1, "none", m, backed)
    ELSE IF ~AllocForLazy(backed, can_alloc) THEN EarlyReturn(-1, "failed", m, backed)
    ELSE IF ~fd_ok THEN EarlyReturn(-1, "ok", m, TRUE)
    ELSE
      LET scan == ScanPrior(m, buflen, 0, 0, trapping)
          base == [ op |-> "getdents64", outcome |-> "ok", ret |-> 0, prefault |-> "ok",
                    touched |-> TRUE, m |-> m, backed |-> TRUE, hi |-> 0, cursor |-> 0,
                    recs |-> << >> ]
      IN
      IF scan.panic THEN [ base EXCEPT !.outcome = "panic" ]
      ELSE IF ~readdir_ok THEN [ base EXCEPT !.outcome = "err", !.ret = ENOENT ]
      ELSE
        LET s0 == [ buffer |-> DirBufferNew(buflen), m |-> m, hi |-> 0,
                    total_size |-> scan.initial_offset,
                    current_offset |-> scan.initial_offset,
                    panic |-> FALSE, recs |-> << >> ]
            s1 == EmitTerminal(EmitEntries(s0, entries, scan.count + 1, pad, trapping),
                               pad, trapping)
        IN  [ base EXCEPT !.outcome = IF s1.panic THEN "panic" ELSE "ok",
                          !.ret = IF s1.panic THEN 0 ELSE s1.total_size,
                          !.m = s1.m, !.hi = s1.hi, !.cursor = s1.buffer.offset,
                          !.recs = s1.recs ]

\* ------------------------------------------------------------ SpecDir
\* The entries the backend can list, each with its backend file type: "a",
\* "bb", "ccccc" and "ddd", whose records take 21, 22, 25 and 23 bytes.
DirEntries ==
    { [ name |-> << 97 >>, ftype |-> "file" ],
      [ name |-> << 98, 98 >>, ftype |-> "dir" ],
      [ name |-> << 99, 99, 99, 99, 99 >>, ftype |-> "other" ],
      [ name |-> << 100, 100, 100 >>, ftype |-> "file" ] }

\* Directory listings: up to MaxEntries entries with distinct names.
Listings ==
    UNION { { q \in [ 1 .. n -> DirEntries ] :
                \A i, j \in 1 .. n : i # j => q[i].name # q[j].name } :
            n \in 0 .. MaxEntries }

NoCall ==
    [ op |-> "none", outcome |-> "none", ret |-> 0, prefault |-> "none",
      touched |-> FALSE, hi |-> 0, cursor |-> 0, recs |-> << >> ]

\* Names of the records a call stored, in the order stored.
NamesOf(recs) == [ i \in 1 .. Len(recs) |-> recs[i].name ]

InitDir ==
    /\ MainIdle
    /\ padStore \in PadModes
    /\ alignTrap \in BOOLEAN
    /\ dir \in Listings
    /\ len \in MinLen .. MaxLen
    /\ mem = [ i \in 1 .. MemTop |-> 0 ]
    /\ dirBacked = FALSE
    /\ calls = 0
    /\ yielded = << >>
    /\ done = FALSE
    /\ last = NoCall
    /\ kstatBuf = << >>
    /\ statxBuf = << >>
    /\ links = << >>
    /\ fsDirs = { }

\* What the environment does to one call: nothing, or it makes the first of
\* alloc_for_lazy, Directory::from_fd or axfs::api::read_dir fail (a later
\* failure is never looked at once an earlier check has returned).
Faults == { "none", "nomem", "badfd", "nolist" }

\* One sys_getdents64 call of the task on its directory descriptor, with the
\* buffer as the previous call left it. A call after the one that produced
\* nothing new starts a new logical enumeration. A failed call is not counted:
\* it leaves the buffer as it was. A panic stops the kernel.
GetdentsCall ==
    /\ calls < MaxCalls
    /\ last.outcome # "panic"
    /\ \E fault \in Faults :
       \E r \in { SysGetdents64(fault # "badfd", fault # "nomem", fault # "nolist",
                                dir, mem, len, dirBacked, padStore, alignTrap) } :
         LET prior == IF done THEN << >> ELSE yielded
         IN  /\ mem' = r.m
             /\ dirBacked' = r.backed
             /\ last' = [ op |-> r.op, outcome |-> r.outcome, ret |-> r.ret,
                          prefault |-> r.prefault, touched |-> r.touched,
                          hi |-> r.hi, cursor |-> r.cursor, recs |-> r.recs ]
             /\ yielded' = IF r.outcome = "err" THEN yielded
                           ELSE prior \o NamesOf(r.recs)
             /\ done' = IF r.outcome = "err" THEN done
                        ELSE (r.outcome = "panic" \/ r.recs = << >>)
             /\ calls' = IF r.outcome = "err" THEN calls ELSE calls + 1
    /\ UNCHANGED << padStore, alignTrap, dir, len >>
    /\ UNCHANGED statVars
    /\ UNCHANGED linkVars
    /\ UNCHANGED mainVars

NextDir == GetdentsCall

SpecDir == InitDir /\ [][NextDir]_vars

\* ------------------------------------------------ claims on getdents64
\* d_reclen the shim gives the record of a name: header plus name plus NUL.
RecLen(name) == FIXED_SIZE + Len(name) + 1

\* Sum of the record lengths of the first n names of a sequence.
RECURSIVE SumRecLen(_, _)
SumRecLen(names, n) == IF n = 0 THEN 0 ELSE SumRecLen(names, n - 1) + RecLen(names[n])

\* The names a single call with a buffer that holds them all yields.
DirNames == [ i \in 1 .. Len(dir) |-> dir[i].name ]

\* C1: every byte sys_getdents64 stores (the whole stored DirEnt and the name
\* of every record, the terminal record included) lies inside [buf, buf+len),
\* and the DirBuffer cursor never exceeds len.
C1_WritesInsideBuffer ==
    last.op = "getdents64" => (last.hi <= len /\ last.cursor <= len)

\* C2: with a buffer that holds every single record of the directory, and in a
\* build where misaligned accesses are harmless, no call of a multi-call
\* enumeration aborts, and when the enumeration ends (a call produced nothing
\* new) the names yielded over the calls are those of the one-call listing, in
\* the same order.
C2_SmallBufferRoundTrip ==
    (~alignTrap /\ len >= FIXED_SIZE /\ \A i \in 1 .. Len(dir) : RecLen(dir[i].name) <= len)
        => /\ last.outcome # "panic"
           /\ (done => yielded = DirNames)

\* C3: the value a successful sys_getdents64 returns is the number of bytes of
\* the records it stored during that call, and is at most len.
C3_ReturnIsBytesWritten ==
    (last.op = "getdents64" /\ last.outcome = "ok")
        => /\ last.ret = SumRecLen(NamesOf(last.recs), Len(last.recs))
           /\ last.ret <= len

\* C4: every real record stored by a call has, in the buffer, d_reclen = header
\* size + name length with its NUL, and d_off = the sum of the d_reclen of all
\* records emitted since the start of the logical enumeration, itself included.
C4_OffsetInvariant ==
    \A k \in 1 .. Len(last.recs) :
        LET at == last.recs[k].at
            idx == Len(yielded) - Len(last.recs) + k
        IN  /\ ReadU16(mem, at + OFF_D_RECLEN) = RecLen(last.recs[k].name)
            /\ I64Equals(mem, at + OFF_D_OFF, SumRecLen(yielded, idx))

\* C4 witness: a resuming call stored a record behind records of an earlier
\* call of the same enumeration.
C4_Witness ==
    /\ last.outcome = "ok"
    /\ Len(last.recs) >= 1
    /\ Len(yielded) > Len(last.recs)
    /\ calls >= 2

\* C10: every failing outcome of sys_getdents64 is a negative return value,
\* and the "buffer too small" failure comes before the buffer is touched.
C10_FailuresAreNegative ==
    (last.op = "getdents64" /\ last.outcome = "err")
        => /\ last.ret < 0
           /\ (len < FIXED_SIZE => ~last.touched)

\* ------------------------------------------------------ stat records
\* `as u16` on a non-negative value.
AsU16(v) == v % 65536

\* The stat records arceos_posix_api::sys_fstat can report: a regular file,
\* and a directory whose st_mode has bits above the low 16 set.
BackendStats ==
    { [ st_dev |-> 1, st_ino |-> 5, st_mode |-> 33188, st_nlink |-> 2, st_uid |-> 0,
        st_gid |-> 0, st_rdev |-> 0, st_size |-> 1234, st_blksize |-> 512,
        st_blocks |-> 3,
        st_atime |-> [ tv_sec |-> 11, tv_nsec |-> 12 ],
        st_mtime |-> [ tv_sec |-> 13, tv_nsec |-> 14 ],
        st_ctime |-> [ tv_sec |-> 15, tv_nsec |-> 16 ] ],
      [ st_dev |-> 2, st_ino |-> 6, st_mode |-> 65536 + 16877, st_nlink |-> 1,
        st_uid |-> 1000, st_gid |-> 100, st_rdev |-> 3, st_size |-> 0,
        st_blksize |-> 4096, st_blocks |-> 0,
        st_atime |-> [ tv_sec |-> 21, tv_nsec |-> 22 ],
        st_mtime |-> [ tv_sec |-> 23, tv_nsec |-> 24 ],
        st_ctime |-> [ tv_sec |-> 25, tv_nsec |-> 26 ] ] }

\* ctypes::stat::default().
StatDefault ==
    [ st_dev |-> 0, st_ino |-> 0, st_mode |-> 0, st_nlink |-> 0, st_uid |-> 0,
      st_gid |-> 0, st_rdev |-> 0, st_size |-> 0, st_blksize |-> 0, st_blocks |-> 0,
      st_atime |-> [ tv_sec |-> 0, tv_nsec |-> 0 ],
      st_mtime |-> [ tv_sec |-> 0, tv_nsec |-> 0 ],
      st_ctime |-> [ tv_sec |-> 0, tv_nsec |-> 0 ] ]

\* impl From<ctypes::stat> for Kstat.
KstatFrom(stat) ==
    [ st_dev |-> stat.st_dev, st_ino |-> stat.st_ino, st_mode |-> stat.st_mode,
      st_nlink |-> stat.st_nlink, st_uid |-> stat.st_uid, st_gid |-> stat.st_gid,
      st_rdev |-> stat.st_rdev, pad0 |-> 0, st_size |-> stat.st_size,
      st_blksize |-> stat.st_blksize, pad1 |-> 0, st_blocks |-> stat.st_blocks,
      st_atime_sec |-> stat.st_atime.tv_sec, st_atime_nsec |-> stat.st_atime.tv_nsec,
      st_mtime_sec |-> stat.st_mtime.tv_sec, st_mtime_nsec |-> stat.st_mtime.tv_nsec,
      st_ctime_sec |-> stat.st_ctime.tv_sec, st_ctime_nsec |-> stat.st_ctime.tv_nsec ]

\* A StatX record with every field set to v (v = 0: StatX::default()).
StatXFilled(v) ==
    [ stx_mask |-> v, stx_blksize |-> v, stx_attributes |-> v, stx_nlink |-> v,
      stx_uid |-> v, stx_gid |-> v, stx_mode |-> v, stx_ino |-> v, stx_size |-> v,
      stx_blocks |-> v, stx_attributes_mask |-> v,
      stx_atime |-> [ tv_sec |-> v, tv_nsec |-> v ],
      stx_btime |-> [ tv_sec |-> v, tv_nsec |-> v ],
      stx_ctime |-> [ tv_sec |-> v, tv_nsec |-> v ],
      stx_mtime |-> [ tv_sec |-> v, tv_nsec |-> v ],
      stx_rdev_major |-> v, stx_rdev_minor |-> v, stx_dev_major |-> v,
      stx_dev_minor |-> v, stx_mnt_id |-> v, stx_dio_mem_align |-> v,
      stx_dio_offset_align |-> v ]

\* A Kstat record with every field set to v.
KstatFilled(v) ==
    [ st_dev |-> v, st_ino |-> v, st_mode |-> v, st_nlink |-> v, st_uid |-> v,
      st_gid |-> v, st_rdev |-> v, pad0 |-> v, st_size |-> v, st_blksize |-> v,
      pad1 |-> v, st_blocks |-> v, st_atime_sec |-> v, st_atime_nsec |-> v,
      st_mtime_sec |-> v, st_mtime_nsec |-> v, st_ctime_sec |-> v,
      st_ctime_nsec |-> v ]

\* The field assignments of sys_statx through `&mut *(statxbuf as *mut StatX)`:
\* the fields named are stored, the others keep what the buffer held.
StatxAssign(statx, status) ==
    [ statx EXCEPT
        !.stx_blksize = status.st_blksize,
        !.stx_attributes = status.st_mode,
        !.stx_nlink = status.st_nlink,
        !.stx_uid = status.st_uid,
        !.stx_gid = status.st_gid,
        !.stx_mode = AsU16(status.st_mode),
        !.stx_ino = status.st_ino,
        !.stx_size = status.st_size,
        !.stx_blocks = status.st_blocks,
        !.stx_attributes_mask = STX_ATTRIBUTES_MASK,
        !.stx_atime = status.st_atime,
        !.stx_ctime = status.st_ctime,
        !.stx_mtime = status.st_mtime ]

\* -------------------------------------------------------- syscall_body
\* The syscall_body! wrapper: Ok(v) is returned as v, Err(e) as -e.
SyscallBody(res) == IF res.ok THEN res.val ELSE -res.err

\* ----------------------------------------------------------- sys_fstat
\* sys_fstat(fd, kstatbuf): fstat_res is what arceos_posix_api::sys_fstat
\* returns, having filled `status` when it is not negative.
SysFstat(fstat_res, status, kbuf) ==
    IF fstat_res < 0
    THEN [ ret |-> -1, outcome |-> "err", touched |-> FALSE, queried |-> TRUE,
           kbuf |-> kbuf ]
    ELSE [ ret |-> 0, outcome |-> "ok", touched |-> TRUE, queried |-> TRUE,
           kbuf |-> KstatFrom(status) ]

\* ----------------------------------------------------------- sys_statx
\* Whether bit AT_EMPTY_PATH is set in flags.
HasEmptyPathFlag(flags) == (flags \div AT_EMPTY_PATH) % 2 = 1

\* Faulty variant of StatxRejectsFlags: the flag word is compared with 0 instead of
\* its AT_EMPTY_PATH bit being tested.
StatxRejectsFlagsEqZero(flags) == flags = 0

\* `flags & AT_EMPTY_PATH == 0`.
StatxRejectsFlags(flags) == ~HasEmptyPathFlag(flags)

\* The body of sys_statx. path is what char_ptr_to_str gives: [ok, str] or
\* [ok = FALSE, err]; fstat_res and status are what sys_fstat(dirfd) gives if
\* it is called.
StatxBody(path, flags, fstat_res, status, xbuf) ==
    IF ~path.ok
    THEN [ res |-> [ ok |-> FALSE, err |-> path.err ], touched |-> FALSE,
           queried |-> FALSE, xbuf |-> xbuf ]
    ELSE IF path.str = ""
    THEN IF StatxRejectsFlags(flags)
         THEN [ res |-> [ ok |-> FALSE, err |-> EINVAL ], touched |-> FALSE,
                queried |-> FALSE, xbuf |-> xbuf ]
         ELSE IF fstat_res < 0
         THEN [ res |-> [ ok |-> FALSE, err |-> -fstat_res ], touched |-> FALSE,
                queried |-> TRUE, xbuf |-> xbuf ]
         ELSE [ res |-> [ ok |-> TRUE, val |-> 0 ], touched |-> TRUE,
                queried |-> TRUE, xbuf |-> StatxAssign(xbuf, status) ]
    ELSE [ res |-> [ ok |-> FALSE, err |-> ENOSYS ], touched |-> FALSE,
           queried |-> FALSE, xbuf |-> xbuf ]

\* ----------------------------------------------------------- SpecStat
\* What char_ptr_to_str can give for the pathname argument.
PathArgs ==
    { [ ok |-> FALSE, err |-> EFAULT ], [ ok |-> TRUE, str |-> "" ],
      [ ok |-> TRUE, str |-> "/tmp/f" ] }
\* Flag words the caller passes: none, AT_SYMLINK_NOFOLLOW (0x100),
\* AT_EMPTY_PATH, and both.
StatxFlags == { 0, 256, AT_EMPTY_PATH, AT_EMPTY_PATH + 256 }
\* What sys_fstat does for the descriptor: it fills one of BackendStats and
\* returns 0, or returns -EBADF and leaves the default record.
FstatResults ==
    { [ res |-> 0, status |-> st ] : st \in BackendStats }
        \cup { [ res |-> -EBADF, status |-> StatDefault ] }
\* What the caller's buffers hold before a call: zeroes or stale data.
PriorFill == { 0, 7 }

InitStat ==
    /\ MainIdle
    /\ padStore = "skip"
    /\ alignTrap = FALSE
    /\ dir = << >>
    /\ len = 0
    /\ mem = << >>
    /\ dirBacked = FALSE
    /\ calls = 0
    /\ yielded = << >>
    /\ done = FALSE
    /\ links = << >>
    /\ fsDirs = { }
    /\ kstatBuf \in { KstatFilled(v) : v \in PriorFill }
    /\ statxBuf \in { StatXFilled(v) : v \in PriorFill }
    /\ last = [ op |-> "none", outcome |-> "none", ret |-> 0, prefault |-> "none",
                touched |-> FALSE, queried |-> FALSE, err |-> 0, path |-> "",
                path_ok |-> TRUE, flags |-> 0, prior |-> << >> ]

\* The task calls sys_fstat on a descriptor.
FstatCall ==
    /\ \E f \in FstatResults :
       \E r \in { SysFstat(f.res, f.status, kstatBuf) } :
         /\ kstatBuf' = r.kbuf
         /\ last' = [ op |-> "fstat", outcome |-> r.outcome, ret |-> r.ret,
                      prefault |-> "none", touched |-> r.touched,
                      queried |-> r.queried, err |-> 0, path |-> "",
                      path_ok |-> TRUE, flags |-> 0, prior |-> kstatBuf ]
    /\ UNCHANGED statxBuf
    /\ UNCHANGED dirVars
    /\ UNCHANGED linkVars
    /\ UNCHANGED mainVars

\* The task calls sys_statx(dirfd, pathname, flags, mask, statxbuf); the mask
\* argument is not read by the shim.
StatxCall ==
    /\ \E path \in PathArgs, flags \in StatxFlags, f \in FstatResults :
       \E r \in { StatxBody(path, flags, f.res, f.status, statxBuf) } :
         /\ statxBuf' = r.xbuf
         /\ last' = [ op |-> "statx",
                      outcome |-> IF r.res.ok THEN "ok" ELSE "err",
                      ret |-> SyscallBody(r.res),
                      prefault |-> "none", touched |-> r.touched,
                      queried |-> r.queried,
                      err |-> IF r.res.ok THEN 0 ELSE r.res.err,
                      path |-> IF path.ok THEN path.str ELSE "",
                      path_ok |-> path.ok,
                      flags |-> flags, prior |-> statxBuf ]
    /\ UNCHANGED kstatBuf
    /\ UNCHANGED dirVars
    /\ UNCHANGED linkVars
    /\ UNCHANGED mainVars

NextStat == FstatCall \/ StatxCall

SpecStat == InitStat /\ [][NextStat]_vars

\* ------------------------------------------------- claims on the stat shims
\* C5: a shim that reads or writes the caller's buffer has ensured backing for
\* it (alloc_for_lazy under the address-space lock) before, and a shim whose
\* allocation failed returns an error without touching the buffer.
C5_PrefaultBeforeTouch ==
    /\ last.touched => last.prefault = "ok"
    /\ last.prefault = "failed" => (last.ret < 0 /\ ~last.touched)

\* C6: after a successful sys_statx on the by-descriptor path, every StatX
\* field that is not derived from the backend stat is zero in the buffer,
\* whatever the buffer held before.
C6_UnpopulatedFieldsZero ==
    (last.op = "statx" /\ last.outcome = "ok")
        => /\ statxBuf.stx_mask = 0
           /\ statxBuf.stx_btime = [ tv_sec |-> 0, tv_nsec |-> 0 ]
           /\ statxBuf.stx_rdev_major = 0
           /\ statxBuf.stx_rdev_minor = 0
           /\ statxBuf.stx_dev_major = 0
           /\ statxBuf.stx_dev_minor = 0
           /\ statxBuf.stx_mnt_id = 0
           /\ statxBuf.stx_dio_mem_align = 0
           /\ statxBuf.stx_dio_offset_align = 0

\* C7: sys_statx with a non-empty path fails with ENOSYS, and with an empty
\* path and bit AT_EMPTY_PATH clear it fails with EINVAL; either way the
\* backend is not queried and the statx buffer keeps what it held.
C7_StatxGating ==
    (last.op = "statx" /\ last.path_ok)
        => /\ last.path # ""
                => /\ last.outcome = "err" /\ last.err = ENOSYS
                   /\ ~last.queried /\ statxBuf = last.prior
           /\ (last.path = "" /\ ~HasEmptyPathFlag(last.flags))
                => /\ last.outcome = "err" /\ last.err = EINVAL
                   /\ ~last.queried /\ statxBuf = last.prior

\* C7 witness: an empty path with a non-zero flag word that lacks
\* AT_EMPTY_PATH was rejected with EINVAL on a buffer holding stale data.
C7_Witness ==
    /\ last.op = "statx" /\ last.path_ok /\ last.path = ""
    /\ last.flags # 0 /\ ~HasEmptyPathFlag(last.flags)
    /\ last.err = EINVAL
    /\ statxBuf.stx_mask # 0

\* ------------------------------------------- backend and HardlinkManager
\* The paths of the model: two regular files, a directory that is empty, and
\* a name that does not exist in the backend.
Paths == { "/a", "/b", "/d", "/n" }
\* The regular files of the backend (the shims of this model never create or
\* delete one).
FsFiles == { "/a", "/b" }
\* No entry in the HardlinkManager table.
NoLink == "-"

\* The path a name stands for: its target if the manager tracks it.
RealPath(L, p) == IF L[p] # NoLink THEN L[p] ELSE p

\* axfs::api::metadata(path): whether it succeeds, and is_dir().
Metadata(L, D, p) ==
    [ ok |-> RealPath(L, p) \in FsFiles \cup D, is_dir |-> RealPath(L, p) \in D ]

\* axfs::api::remove_dir(path): removes an empty directory.
RemoveDir(D, p) == [ ok |-> p \in D, dirs |-> D \ { p } ]

\* HardlinkManager::create_link(new, old): fails if old does not resolve to an
\* existing file. Whether an existing new name is replaced or refused is the
\* manager's policy (replace).
CreateLink(L, D, new, old, replace) ==
    IF RealPath(L, old) \notin FsFiles THEN [ ok |-> FALSE, links |-> L ]
    ELSE IF (L[new] # NoLink \/ new \in FsFiles \cup D) /\ ~replace
    THEN [ ok |-> FALSE, links |-> L ]
    ELSE [ ok |-> TRUE, links |-> [ L EXCEPT ![new] = RealPath(L, old) ] ]

\* HardlinkManager::remove_link(path): None if the path is not tracked.
RemoveLink(L, p) ==
    IF L[p] = NoLink THEN [ some |-> FALSE, links |-> L ]
    ELSE [ some |-> TRUE, links |-> [ L EXCEPT ![p] = NoLink ] ]

\* ------------------------------------------------------------ sys_linkat
\* Faulty variant of LinkatCreate: the two paths are handed over in the wrong order.
LinkatCreateSwapped(L, D, old_path, new_path, replace) ==
    CreateLink(L, D, old_path, new_path, replace)

\* HARDLINK_MANAGER.create_link(&new_path, &old_path) as sys_linkat calls it.
LinkatCreate(L, D, old_path, new_path, replace) ==
    CreateLink(L, D, new_path, old_path, replace)

\* sys_linkat: old and new are what handle_file_path gives for the two path
\* arguments ([ok, path]); a non-zero flags is only logged.
SysLinkat(L, D, old, new, flags, replace) ==
    IF ~old.ok \/ ~new.ok
    THEN [ ret |-> -1, links |-> L, mgr |-> FALSE ]
    ELSE LET c == LinkatCreate(L, D, old.path, new.path, replace)
         IN  [ ret |-> IF c.ok THEN 0 ELSE -1, links |-> c.links, mgr |-> TRUE ]

\* ---------------------------------------------------------- sys_unlinkat
\* sys_unlinkat: p is what handle_file_path gives for the path argument.
SysUnlinkat(L, D, p, flags) ==
    IF ~p.ok
    THEN [ ret |-> -1, links |-> L, dirs |-> D, rmdir |-> FALSE, mgr |-> FALSE ]
    ELSE IF flags = AT_REMOVEDIR
    THEN LET r == RemoveDir(D, p.path)
         IN  [ ret |-> IF r.ok THEN 0 ELSE -1, links |-> L, dirs |-> r.dirs,
               rmdir |-> TRUE, mgr |-> FALSE ]
    ELSE LET md == Metadata(L, D, p.path)
         IN  IF ~md.ok \/ md.is_dir
             THEN [ ret |-> -1, links |-> L, dirs |-> D, rmdir |-> FALSE,
                    mgr |-> FALSE ]
             ELSE LET r == RemoveLink(L, p.path)
                  IN  [ ret |-> IF r.some THEN 0 ELSE -1, links |-> r.links,
                        dirs |-> D, rmdir |-> FALSE, mgr |-> TRUE ]

\* ------------------------------------------------------------- SpecLink
\* What handle_file_path gives: a resolved path, or an error.
PathResults == { [ ok |-> TRUE, path |-> p ] : p \in Paths }
                   \cup { [ ok |-> FALSE, path |-> "" ] }
\* Flag words passed to sys_unlinkat: none, AT_SYMLINK_NOFOLLOW (0x100),
\* AT_REMOVEDIR, and both.
UnlinkFlags == { 0, 256, AT_REMOVEDIR, AT_REMOVEDIR + 256 }
\* Flag words passed to sys_linkat: none, AT_SYMLINK_FOLLOW (0x400).
LinkFlags == { 0, 1024 }

InitLink ==
    /\ MainIdle
    /\ padStore = "skip"
    /\ alignTrap = FALSE
    /\ dir = << >>
    /\ len = 0
    /\ mem = << >>
    /\ dirBacked = FALSE
    /\ calls = 0
    /\ yielded = << >>
    /\ done = FALSE
    /\ kstatBuf = << >>
    /\ statxBuf = << >>
    /\ links = [ p \in Paths |-> NoLink ]
    /\ fsDirs = { "/d" }
    /\ last = [ op |-> "none", ret |-> 0, flags |-> 0, path |-> [ ok |-> FALSE, path |-> "" ],
                old |-> [ ok |-> FALSE, path |-> "" ], rmdir |-> FALSE, mgr |-> FALSE,
                priorLinks |-> << >>, priorDirs |-> { } ]

\* The task calls sys_linkat(old_dirfd, old_path, new_dirfd, new_path, flags).
LinkatCall ==
    /\ \E old \in PathResults, new \in PathResults, flags \in LinkFlags,
          replace \in BOOLEAN :
       \E r \in { SysLinkat(links, fsDirs, old, new, flags, replace) } :
         /\ links' = r.links
         /\ last' = [ op |-> "linkat", ret |-> r.ret, flags |-> flags, path |-> new,
                      old |-> old, rmdir |-> FALSE, mgr |-> r.mgr,
                      priorLinks |-> links, priorDirs |-> fsDirs ]
    /\ UNCHANGED fsDirs
    /\ UNCHANGED dirVars
    /\ UNCHANGED statVars
    /\ UNCHANGED mainVars

\* The task calls sys_unlinkat(dir_fd, path, flags).
UnlinkatCall ==
    /\ \E p \in PathResults, flags \in UnlinkFlags :
       \E r \in { SysUnlinkat(links, fsDirs, p, flags) } :
         /\ links' = r.links
         /\ fsDirs' = r.dirs
         /\ last' = [ op |-> "unlinkat", ret |-> r.ret, flags |-> flags, path |-> p,
                      old |-> [ ok |-> FALSE, path |-> "" ], rmdir |-> r.rmdir,
                      mgr |-> r.mgr, priorLinks |-> links, priorDirs |-> fsDirs ]
    /\ UNCHANGED dirVars
    /\ UNCHANGED statVars
    /\ UNCHANGED mainVars

NextLink == LinkatCall \/ UnlinkatCall

SpecLink == InitLink /\ [][NextLink]_vars

\* ---------------------------------------------- claims on link and unlink
\* Whether bit AT_REMOVEDIR is set in flags.
HasRemoveDirBit(flags) == (flags \div AT_REMOVEDIR) % 2 = 1

\* C8: with bit 0x200 set, whatever the other bits, sys_unlinkat on a resolved
\* path takes the directory-removal path (it calls the backend's remove_dir,
\* which removes an existing directory, and never the HardlinkManager); with
\* bit 0x200 clear, a path naming a directory fails with -1 and nothing is
\* removed.
C8_RemoveDirBitDecides ==
    (last.op = "unlinkat" /\ last.path.ok)
        => /\ HasRemoveDirBit(last.flags)
                => /\ last.rmdir /\ ~last.mgr
                   /\ last.path.path \in last.priorDirs
                        => (last.ret = 0 /\ last.path.path \notin fsDirs)
           /\ (~HasRemoveDirBit(last.flags)
                 /\ Metadata(last.priorLinks, last.priorDirs, last.path.path).is_dir)
                => /\ last.ret = -1
                   /\ fsDirs = last.priorDirs /\ links = last.priorLinks

\* After sys_linkat(old, new) returned 0, new is tracked as an alias of the
\* target old stood for.
LinkatTracksAlias ==
    (last.op = "linkat" /\ last.ret = 0)
        => links[last.path.path] = RealPath(last.priorLinks, last.old.path)

\* After sys_unlinkat(new) without the remove-directory flag returned 0, new
\* is no longer tracked, every other link is as before, and the file new stood
\* for is still there.
UnlinkatDropsOnlyThatLink ==
    (last.op = "unlinkat" /\ ~HasRemoveDirBit(last.flags) /\ last.ret = 0)
        => /\ links[last.path.path] = NoLink
           /\ \A q \in Paths \ { last.path.path } : links[q] = last.priorLinks[q]
           /\ last.priorLinks[last.path.path] \in FsFiles
           /\ fsDirs = last.priorDirs

\* The call was a sys_unlinkat on a resolved path the manager did not track.
UnlinkatOfUntracked ==
    /\ last.op = "unlinkat" /\ last.path.ok
    /\ last.priorLinks[last.path.path] = NoLink

MaxRaw == 4

\* A string is the sequence of its characters. The characters of a list
\* value: two letters, the path separator and the list separator.
EnvChars == { "a", "b", "/", "," }

\* option_env!("AX_TESTCASES_LIST"): unset, or set to a string.
EnvValues ==
    { [ set |-> FALSE, val |-> << >> ] }
    \cup { [ set |-> TRUE, val |-> v ] :
           v \in UNION { [ 1 .. n -> EnvChars ] : n \in 0 .. MaxRaw } }

\* The text main falls back to when the variable is unset. It holds neither
\* separator, so it is kept as one unit.
PLACEHOLDER == << "Please specify the testcases list by making user_apps" >>

\* str::split(sep): the pieces between separators, empty ones included; the
\* empty string has one (empty) piece. SplitFrom yields the pieces of
\* s[i..], cur being the piece in progress.
RECURSIVE SplitFrom(_, _, _, _)
SplitFrom(s, sep, i, cur) ==
    IF i > Len(s) THEN << cur >>
    ELSE IF s[i] = sep THEN << cur >> \o SplitFrom(s, sep, i + 1, << >>)
    ELSE SplitFrom(s, sep, i + 1, Append(cur, s[i]))

Split(s, sep) == SplitFrom(s, sep, 1, << >>)

IsNonEmpty(x) == x # << >>

\* main's testcases iterator, as the list it yields.
Testcases(e) ==
    SelectSeq(Split(IF e.set THEN e.val ELSE PLACEHOLDER, ","), IsNonEmpty)

\* testcase.split('/').next_back().unwrap(): the last piece (split always
\* has one).
ShortName(t) == LET parts == Split(t, "/") IN parts[Len(parts)]

BANNER_START == [ kind |-> "start", text |-> << >> ]
BANNER_END == [ kind |-> "end", text |-> << >> ]
NameLine(t) == [ kind |-> "name", text |-> ShortName(t) ]

\* Exit codes of a user task.
ExitCodes == { 0, 1 }

\* task::spawn_user_task: a new task that runs in the given address space;
\* the handle (its position in tasks) is returned at once.
SpawnUserTask(ts, aspace, t) ==
    Append(ts, [ testcase |-> t, aspace |-> aspace, state |-> "running",
                 code |-> 0, joins |-> 0 ])

\* join returns only for a task that has terminated.
JoinReturns(ts, h) == ts[h].state = "exited"
JoinTask(ts, h) == [ ts EXCEPT ![h].joins = @ + 1 ]

\* main without the join: the loop goes on right after the spawn.
MainPcAfterNoJoin(pc, more) ==
    CASE pc \in { "start", "spawn", "join" } -> IF more THEN "name" ELSE "end"
      [] pc = "name" -> "aspace"
      [] pc = "aspace" -> "load"
      [] pc = "load" -> "spawn"
      [] pc = "end" -> "done"

\* Control flow of main: the statement that follows pc; more tells whether
\* the testcases iterator has another item. "start" and "end" are the two
\* banners, "name" the per-executable line, "aspace" new_user_aspace, "load"
\* load_user_app, "spawn" spawn_user_task, "join" user_task.join().
MainPcAfter(pc, more) ==
    CASE pc \in { "start", "join" } -> IF more THEN "name" ELSE "end"
      [] pc = "name" -> "aspace"
      [] pc = "aspace" -> "load"
      [] pc = "load" -> "spawn"
      [] pc = "spawn" -> "join"
      [] pc = "end" -> "done"

MoreTestcases == testcase < Len(Testcases(env))

InitMain ==
    /\ env \in EnvValues
    /\ mainPc = "start"
    /\ testcase = 0
    /\ console = << >>
    /\ aspaces = 0
    /\ uspace = 0
    /\ tasks = << >>
    /\ padStore = "skip"
    /\ alignTrap = FALSE
    /\ dir = << >>
    /\ len = 0
    /\ mem = << >>
    /\ dirBacked = FALSE
    /\ calls = 0
    /\ yielded = << >>
    /\ done = FALSE
    /\ last = NoCall
    /\ kstatBuf = << >>
    /\ statxBuf = << >>
    /\ links = << >>
    /\ fsDirs = { }

\* println!("#### OS COMP TEST GROUP START basic-musl ####")
MainStart ==
    /\ mainPc = "start"
    /\ console' = Append(console, BANNER_START)
    /\ mainPc' = MainPcAfter(mainPc, MoreTestcases)
    /\ UNCHANGED << env, testcase, aspaces, uspace, tasks >>
    /\ UNCHANGED << dirVars, last, statVars, linkVars >>

\* The loop takes the next testcase and prints "Testing <short name>: ".
MainPrintName ==
    /\ mainPc = "name"
    /\ testcase' = testcase + 1
    /\ console' = Append(console, NameLine(Testcases(env)[testcase + 1]))
    /\ mainPc' = MainPcAfter(mainPc, MoreTestcases)
    /\ UNCHANGED << env, aspaces, uspace, tasks >>
    /\ UNCHANGED << dirVars, last, statVars, linkVars >>

\* axmm::new_user_aspace(..).expect(..): a new address space, or a panic.
MainNewAspace ==
    /\ mainPc = "aspace"
    /\ \E ok \in BOOLEAN :
         IF ok
         THEN /\ aspaces' = aspaces + 1
              /\ uspace' = aspaces + 1
              /\ mainPc' = MainPcAfter(mainPc, MoreTestcases)
         ELSE /\ mainPc' = "panic"
              /\ UNCHANGED << aspaces, uspace >>
    /\ UNCHANGED << env, testcase, console, tasks >>
    /\ UNCHANGED << dirVars, last, statVars, linkVars >>

\* mm::load_user_app(&mut args, &mut uspace).unwrap(): loads, or a panic.
MainLoad ==
    /\ mainPc = "load"
    /\ \E ok \in BOOLEAN :
         mainPc' = IF ok THEN MainPcAfter(mainPc, MoreTestcases) ELSE "panic"
    /\ UNCHANGED << env, testcase, console, aspaces, uspace, tasks >>
    /\ UNCHANGED << dirVars, last, statVars, linkVars >>

\* task::spawn_user_task(Arc::new(Mutex::new(uspace)), ..): uspace moves
\* into the task.
MainSpawn ==
    /\ mainPc = "spawn"
    /\ tasks' = SpawnUserTask(tasks, uspace, Testcases(env)[testcase])
    /\ uspace' = 0
    /\ mainPc' = MainPcAfter(mainPc, MoreTestcases)
    /\ UNCHANGED << env, testcase, console, aspaces >>
    /\ UNCHANGED << dirVars, last, statVars, linkVars >>

\* user_task.join() on the handle just spawned; blocked while it runs.
MainJoin ==
    /\ mainPc = "join"
    /\ JoinReturns(tasks, Len(tasks))
    /\ tasks' = JoinTask(tasks, Len(tasks))
    /\ mainPc' = MainPcAfter(mainPc, MoreTestcases)
    /\ UNCHANGED << env, testcase, console, aspaces, uspace >>
    /\ UNCHANGED << dirVars, last, statVars, linkVars >>

\* println!("#### OS COMP TEST GROUP END basic-musl ####")
MainEnd ==
    /\ mainPc = "end"
    /\ console' = Append(console, BANNER_END)
    /\ mainPc' = MainPcAfter(mainPc, MoreTestcases)
    /\ UNCHANGED << env, testcase, aspaces, uspace, tasks >>
    /\ UNCHANGED << dirVars, last, statVars, linkVars >>

\* A running user task terminates with an exit code (it need not, ever).
TaskExit ==
    /\ \E h \in 1 .. Len(tasks), c \in ExitCodes :
         /\ tasks[h].state = "running"
         /\ tasks' = [ tasks EXCEPT ![h].state = "exited", ![h].code = c ]
    /\ UNCHANGED << env, mainPc, testcase, console, aspaces, uspace >>
    /\ UNCHANGED << dirVars, last, statVars, linkVars >>

NextMain ==
    \/ MainStart
    \/ MainPrintName
    \/ MainNewAspace
    \/ MainLoad
    \/ MainSpawn
    \/ MainJoin
    \/ MainEnd
    \/ TaskExit

SpecMain == InitMain /\ [][NextMain]_vars

\* ------------------------------------------------------------ C11
\* Handles of the spawned tasks that main has not joined yet.
Unjoined == { h \in 1 .. Len(tasks) : tasks[h].joins = 0 }

\* Number of per-executable lines on the console.
NameLines == Len(SelectSeq(console, LAMBDA l : l.kind = "name"))

EndPrinted == \E i \in 1 .. Len(console) : console[i].kind = "end"

\* C11: main runs the configured executables one after another in list
\* order. At any time at most one spawned task is not yet joined and no task
\* is joined twice; the k-th task is the k-th configured executable, in an
\* address space of its own, spawned after its name line; every task but the
\* newest has terminated and been joined, and so has the newest when the
\* next name line is printed; the console starts with the START banner,
\* followed by the short names in list order; the END banner comes last,
\* once, and only when every configured executable has been spawned, has
\* terminated and has been joined exactly once.
C11_OneAtATime ==
    LET T == Testcases(env)
        n == Len(tasks)
        Finished(h) == tasks[h].state = "exited" /\ tasks[h].joins = 1
    IN  /\ Cardinality(Unjoined) <= 1
        /\ \A h \in 1 .. n : tasks[h].joins <= 1
        /\ \A h \in 1 .. n : tasks[h].joins = 1 => tasks[h].state = "exited"
        /\ n <= Len(T)
        /\ \A h \in 1 .. n : tasks[h].testcase = T[h]
        /\ \A h \in 1 .. n : tasks[h].aspace \in 1 .. aspaces
        /\ \A g, h \in 1 .. n : g # h => tasks[g].aspace # tasks[h].aspace
        /\ \A h \in 1 .. n - 1 : Finished(h)
        /\ n <= NameLines
        /\ NameLines <= n + 1
        /\ NameLines = n + 1 => \A h \in 1 .. n : Finished(h)
        /\ console # << >> => console[1] = BANNER_START
        /\ \A i \in 2 .. Len(console) :
             \/ i <= Len(T) + 1 /\ console[i] = NameLine(T[i - 1])
             \/ i = Len(console) /\ console[i] = BANNER_END
        /\ EndPrinted =>
             /\ n = Len(T)
             /\ NameLines = Len(T)
             /\ \A h \in 1 .. n : Finished(h)

\* C11 witness: main has printed the END banner after running two
\* executables whose tasks ended with different exit codes.
C11_Witness ==
    /\ mainPc = "done"
    /\ EndPrinted
    /\ Len(tasks) = 2
    /\ tasks[1].code # tasks[2].code
    /\ tasks[1].joins = 1 /\ tasks[2].joins = 1

====
